---------------------------- MODULE Spec2Model ----------------------------
(***************************************************************************)
(* Model of PWGCF/DataModel/FemtoDerived.h: the FemtoDream derived-data    *)
(* schema.  The header declares enumerations with their name tables, the   *)
(* stored columns, the dynamic (computed on read) columns and the tables   *)
(* that bind the columns together.                                         *)
(*                                                                         *)
(* The state is the contents of the tables, keyed by their (origin,        *)
(* description) tag pair as the framework keys them, plus the result of    *)
(* the last dynamic-column read.  The actions are the row insertions into  *)
(* FDParticles, FDExtParticles and FDMCParticles and the reads of the      *)
(* dynamic columns.                                                        *)
(*                                                                         *)
(* Single-precision values are modelled as fixed-point numbers in units of *)
(* 1/Scale together with the IEEE-754 special values +inf, -inf and NaN.   *)
(* The <cmath> functions are tabulated on the sample arguments, rounded to *)
(* that unit, with their overflow and underflow behaviour in float.        *)
(***************************************************************************)
EXTENDS Integers, Sequences, FiniteSets, TLC

VARIABLES store, read

vars == <<store, read>>

(***************************************************************************)
(* Bound of the model: the total number of rows over all the tables.       *)
(***************************************************************************)
MaxRows == 2

---------------------------------------------------------------------------
(***************************************************************************)
(* Single-precision arithmetic.                                            *)
(***************************************************************************)
Scale == 10 * 1000

Fin(v) == [k |-> "fin", v |-> v]
PosInf == [k |-> "inf", v |-> 1]
NegInf == [k |-> "inf", v |-> -1]
NaN    == [k |-> "nan", v |-> 0]

IsFin(a) == a.k = "fin"
IsInf(a) == a.k = "inf"
IsNaN(a) == a.k = "nan"

Abs(n) == IF n < 0 THEN -n ELSE n
Sgn(n) == IF n < 0 THEN -1 ELSE IF n > 0 THEN 1 ELSE 0

\* n / d rounded to the nearest integer (ties away from zero), d > 0
RoundDiv(n, d) == Sgn(n) * ((2 * Abs(n) + d) \div (2 * d))

\* unary minus
FNeg(a) == IF IsNaN(a) THEN NaN ELSE [k |-> a.k, v |-> -a.v]

\* a * b in IEEE-754: NaN propagates, 0 * inf is NaN
FMul(a, b) ==
  IF IsNaN(a) \/ IsNaN(b) THEN NaN
  ELSE IF IsInf(a) \/ IsInf(b)
       THEN IF a.v = 0 \/ b.v = 0 THEN NaN
            ELSE [k |-> "inf", v |-> Sgn(a.v) * Sgn(b.v)]
       ELSE Fin(RoundDiv(a.v * b.v, Scale))

\* a + b in IEEE-754: NaN propagates, inf + (-inf) is NaN
FAdd(a, b) ==
  IF IsNaN(a) \/ IsNaN(b) THEN NaN
  ELSE IF IsInf(a) /\ IsInf(b) THEN (IF a.v = b.v THEN a ELSE NaN)
  ELSE IF IsInf(a) THEN a
  ELSE IF IsInf(b) THEN b
  ELSE Fin(a.v + b.v)

\* a division that clamps a zero denominator to the result 0
FDivCountsClamped(n, d) ==
  IF d = 0 THEN Fin(0) ELSE Fin(RoundDiv(n * Scale, d))

\* (float)n / (float)d of two unsigned integers: x/0 is +inf, 0/0 is NaN
FDivCounts(n, d) ==
  IF d = 0 THEN (IF n = 0 THEN NaN ELSE PosInf)
  ELSE Fin(RoundDiv(n * Scale, d))

Zero   == Fin(0)
One    == Fin(Scale)
Two    == Fin(2 * Scale)
HalfPi == Fin(15708)
Pi     == Fin(2 * 15708)

\* the arguments beyond which the float functions overflow or underflow
ExpOverflows(x)   == x.v > 88 * Scale + 7228
ExpUnderflows(x)  == x.v < -(103 * Scale + 9720)
SinhOverflows(x)  == Abs(x.v) > 89 * Scale + 4159

\* std::exp(float)
Exp(x) ==
  IF IsNaN(x) THEN NaN
  ELSE IF IsInf(x) THEN (IF x.v > 0 THEN PosInf ELSE Zero)
  ELSE IF ExpOverflows(x) THEN PosInf
  ELSE IF ExpUnderflows(x) THEN Zero
  ELSE CASE x.v = 0      -> One
         [] x.v = Scale  -> Fin(27183)
         [] x.v = -Scale -> Fin(3679)

\* std::atan(float)
Atan(x) ==
  IF IsNaN(x) THEN NaN
  ELSE IF IsInf(x) THEN (IF x.v > 0 THEN HalfPi ELSE FNeg(HalfPi))
  ELSE CASE x.v = 0     -> Zero
         [] x.v = 3679  -> Fin(3525)
         [] x.v = Scale -> Fin(7854)
         [] x.v = 27183 -> Fin(12183)

\* std::sin(float)
Sin(x) ==
  IF ~IsFin(x) THEN NaN
  ELSE CASE x.v = 0     -> Zero
         [] x.v = Scale -> Fin(8415)
         [] x.v = 15708 -> One

\* std::cos(float)
Cos(x) ==
  IF ~IsFin(x) THEN NaN
  ELSE CASE x.v = 0     -> One
         [] x.v = Scale -> Fin(5403)
         [] x.v = 15708 -> Zero

\* std::sinh(float)
Sinh(x) ==
  IF IsNaN(x) THEN NaN
  ELSE IF IsInf(x) THEN x
  ELSE IF SinhOverflows(x) THEN [k |-> "inf", v |-> Sgn(x.v)]
  ELSE CASE x.v = 0      -> Zero
         [] x.v = Scale  -> Fin(11752)
         [] x.v = -Scale -> Fin(-11752)

\* std::cosh(float)
Cosh(x) ==
  IF IsNaN(x) THEN NaN
  ELSE IF IsInf(x) THEN PosInf
  ELSE IF SinhOverflows(x) THEN PosInf
  ELSE CASE x.v = 0      -> One
         [] x.v = Scale  -> Fin(15431)
         [] x.v = -Scale -> Fin(15431)

---------------------------------------------------------------------------
(***************************************************************************)
(* Integer column types.                                                   *)
(***************************************************************************)
\* conversion of an integer argument to a uint8_t column
ToUint8(v) == v % 256

---------------------------------------------------------------------------
(***************************************************************************)
(* Enumerations and their name tables.  An enumeration is the sequence of  *)
(* its enumerators in declaration order, the last one being the counter;   *)
(* an enumerator's value is its position, counted from 0.                  *)
(***************************************************************************)
EnumValue(enum, name) == (CHOOSE i \in 1..Len(enum) : enum[i] = name) - 1

\* T name[n] = {inits}: the elements past the initializers are empty
ArrayInit(n, inits) ==
  [i \in 0..(n - 1) |-> IF i < Len(inits) THEN inits[i + 1] ELSE ""]

ParticleType ==
  <<"kTrack", "kV0", "kV0Child", "kCascade", "kCascadeBachelor",
    "kCharmHadron", "kNParticleTypes">>

kNParticleTypes == EnumValue(ParticleType, "kNParticleTypes")

ParticleTypeNameInit ==
  <<"Tracks", "V0", "V0Child", "Cascade", "CascadeBachelor", "CharmHadron">>

ParticleTypeName == ArrayInit(kNParticleTypes, ParticleTypeNameInit)

TempFitVarNameInit == <<"/hDCAxy", "/hCPA", "/hDCAxy", "/hCPA", "/hDCAxy">>

TempFitVarName == ArrayInit(kNParticleTypes - 1, TempFitVarNameInit)

TrackType == <<"kNoChild", "kPosChild", "kNegChild", "kNTrackTypes">>

kNTrackTypes == EnumValue(TrackType, "kNTrackTypes")

TrackTypeNameInit == <<"Trk", "Pos", "Neg">>

TrackTypeName == ArrayInit(kNTrackTypes, TrackTypeNameInit)

ParticleOriginMCTruth ==
  <<"kPrimary", "kSecondary", "kMaterial", "kNotPrimary", "kFake",
    "kWrongCollision", "kSecondaryDaughterLambda",
    "kSecondaryDaughterSigmaplus", "kElse", "kNOriginMCTruthTypes">>

kNOriginMCTruthTypes == EnumValue(ParticleOriginMCTruth, "kNOriginMCTruthTypes")

ParticleOriginMCTruthNameInit ==
  <<"_Primary", "_Secondary", "_Material", "_NotPrimary", "_Fake",
    "_SecondaryDaughterLambda", "_SecondaryDaughterSigmaPlus">>

ParticleOriginMCTruthName ==
  ArrayInit(kNOriginMCTruthTypes, ParticleOriginMCTruthNameInit)

MCType == <<"kRecon", "kTruth", "kNMCTypes">>

kNMCTypes == EnumValue(MCType, "kNMCTypes")

MCTypeNameInit == <<"", "_MC">>

MCTypeName == ArrayInit(kNMCTypes, MCTypeNameInit)

---------------------------------------------------------------------------
(***************************************************************************)
(* Dynamic columns: the lambdas of DECLARE_SOA_DYNAMIC_COLUMN.             *)
(***************************************************************************)
\* the polar angle without the sign change of eta
ThetaUnnegated(eta) == FMul(Two, Atan(Exp(eta)))

Theta(eta) == FMul(Two, Atan(Exp(FNeg(eta))))

\* the x component taken along the cosine
PxCos(pt, phi) == FMul(pt, Cos(phi))

Px(pt, phi) == FMul(pt, Sin(phi))

Py(pt, phi) == FMul(pt, Cos(phi))

\* the z component taken with the hyperbolic cosine
PzCosh(pt, eta) == FMul(pt, Cosh(eta))

Pz(pt, eta) == FMul(pt, Sinh(eta))

P(pt, eta) == FMul(pt, Cosh(eta))

\* the ratio with numerator and denominator exchanged
TPCCrossedRowsOverFindableClsSwapped(tpcNClsFindable, tpcNClsCrossedRows) ==
  FDivCounts(tpcNClsFindable, tpcNClsCrossedRows)

TPCCrossedRowsOverFindableCls(tpcNClsFindable, tpcNClsCrossedRows) ==
  FDivCounts(tpcNClsCrossedRows, tpcNClsFindable)

---------------------------------------------------------------------------
(***************************************************************************)
(* Table declarations: DECLARE_SOA_TABLE(Name, origin, description, ...).  *)
(* A tag is the sequence of its characters.                                *)
(***************************************************************************)
AOD == <<"A", "O", "D">>

Decl(origin, description) == [origin |-> origin, description |-> description]

\* "FDCOLLISION"
FDCollisionsDecl ==
  Decl(AOD, <<"F", "D", "C", "O", "L", "L", "I", "S", "I", "O", "N">>)

\* "FDCOLMASK"
FDColMasksDecl ==
  Decl(AOD, <<"F", "D", "C", "O", "L", "M", "A", "S", "K">>)

\* "FDDOWNSAMPLE"
FDDownSampleDecl ==
  Decl(AOD, <<"F", "D", "D", "O", "W", "N", "S", "A", "M", "P", "L", "E">>)

\* "FDHFCAND"
FDHfCandDecl ==
  Decl(AOD, <<"F", "D", "H", "F", "C", "A", "N", "D">>)

\* "FDRESULTSHF"
FDResultsHFDecl ==
  Decl(AOD, <<"F", "D", "R", "E", "S", "U", "L", "T", "S", "H", "F">>)

\* "FDHFCANDMC"
FDHfCandMCDecl ==
  Decl(AOD, <<"F", "D", "H", "F", "C", "A", "N", "D", "M", "C">>)

\* "FDHFCANDMCGEN"
FDHfCandMCGenDecl ==
  Decl(AOD, <<"F", "D", "H", "F", "C", "A", "N", "D", "M", "C", "G", "E", "N">>)

\* "FDPARTICLEINDEX"
FDParticlesIndexDecl ==
  Decl(AOD, <<"F", "D", "P", "A", "R", "T", "I", "C", "L", "E", "I", "N", "D", "E", "X">>)

\* "FDPARTICLE"
FDParticlesDecl ==
  Decl(AOD, <<"F", "D", "P", "A", "R", "T", "I", "C", "L", "E">>)

\* "FDEXTPARTICLE"
FDExtParticlesDecl ==
  Decl(AOD, <<"F", "D", "E", "X", "T", "P", "A", "R", "T", "I", "C", "L", "E">>)

\* the truth table declared under the particle table's description
FDMCParticlesDeclCopied ==
  Decl(AOD, <<"F", "D", "P", "A", "R", "T", "I", "C", "L", "E">>)

\* "FDMCPARTICLE"
FDMCParticlesDecl ==
  Decl(AOD, <<"F", "D", "M", "C", "P", "A", "R", "T", "I", "C", "L", "E">>)

\* a description of sixteen characters
FDExtMCParticlesDeclLong ==
  Decl(AOD, <<"F", "D", "E", "X", "T", "M", "C", "P", "A", "R", "T", "I", "C", "L", "E", "S">>)

\* "FDEXTMCPARTICLE"
FDExtMCParticlesDecl ==
  Decl(AOD, <<"F", "D", "E", "X", "T", "M", "C", "P", "A", "R", "T", "I", "C", "L", "E">>)

\* "FDMCLabel"
FDMCLabelsDecl ==
  Decl(AOD, <<"F", "D", "M", "C", "L", "a", "b", "e", "l">>)

\* "FDExtMCLabel"
FDExtMCLabelsDecl ==
  Decl(AOD, <<"F", "D", "E", "x", "t", "M", "C", "L", "a", "b", "e", "l">>)

\* "HASH"
HashesDecl ==
  Decl(AOD, <<"H", "A", "S", "H">>)

TableDecl ==
  [FDCollisions |-> FDCollisionsDecl,
   FDColMasks |-> FDColMasksDecl,
   FDDownSample |-> FDDownSampleDecl,
   FDHfCand |-> FDHfCandDecl,
   FDResultsHF |-> FDResultsHFDecl,
   FDHfCandMC |-> FDHfCandMCDecl,
   FDHfCandMCGen |-> FDHfCandMCGenDecl,
   FDParticlesIndex |-> FDParticlesIndexDecl,
   FDParticles |-> FDParticlesDecl,
   FDExtParticles |-> FDExtParticlesDecl,
   FDMCParticles |-> FDMCParticlesDecl,
   FDExtMCParticles |-> FDExtMCParticlesDecl,
   FDMCLabels |-> FDMCLabelsDecl,
   FDExtMCLabels |-> FDExtMCLabelsDecl,
   Hashes |-> HashesDecl]

TableNames == DOMAIN TableDecl

\* the tag pairs under which the framework files the tables
Tags == {TableDecl[t] : t \in TableNames}

---------------------------------------------------------------------------
(***************************************************************************)
(* Stored columns, as the DECLARE_SOA_COLUMN types hold their arguments.   *)
(***************************************************************************)
\* conversion of an integer argument to a uint32_t column (cutContainerType)
ToUint32(v) == IF v < 0 THEN v + 2147483647 + 2147483647 + 2 ELSE v

\* a particle-type column wide enough to hold its argument unconverted
PartTypeUnconverted(v) == v

\* femtodreamparticle::PartType, a uint8_t
PartType(v) == ToUint8(v)

\* femtodreamMCparticle::PartOriginMCTruth, a uint8_t
PartOriginMCTruth(v) == ToUint8(v)

\* a child list from which the row's own index is dropped
ChildrenWithoutSelf(index, ids) == SelectSeq(ids, LAMBDA c : c # index)

\* femtodreamparticle::Children: the array of row indices of the same table
\* held for the row at position index
Children(index, ids) == ids

\* the row FDParticles holds for the arguments a, appended at position index
FDParticlesRow(index, a) ==
  [fdCollisionId |-> a.fdCollisionId,
   pt            |-> a.pt,
   eta           |-> a.eta,
   phi           |-> a.phi,
   partType      |-> PartType(a.partType),
   cut           |-> ToUint32(a.cut),
   pidcut        |-> ToUint32(a.pidcut),
   tempFitVar    |-> a.tempFitVar,
   childrenIds   |-> Children(index, a.childrenIds),
   mLambda       |-> a.mLambda,
   mAntiLambda   |-> a.mAntiLambda]

\* the row FDExtParticles holds: the sign and the cluster counts; its other
\* columns are floats stored as supplied, which no dynamic column reads
FDExtParticlesRow(a) ==
  [sign               |-> a.sign,
   tpcNClsFound       |-> ToUint8(a.tpcNClsFound),
   tpcNClsFindable    |-> ToUint8(a.tpcNClsFindable),
   tpcNClsCrossedRows |-> ToUint8(a.tpcNClsCrossedRows),
   tpcNClsShared      |-> ToUint8(a.tpcNClsShared),
   itsNCls            |-> ToUint8(a.itsNCls),
   itsNClsInnerBarrel |-> ToUint8(a.itsNClsInnerBarrel)]

\* the row FDMCParticles holds
FDMCParticlesRow(a) ==
  [partOriginMCTruth |-> PartOriginMCTruth(a.partOriginMCTruth),
   pdgMCTruth        |-> a.pdgMCTruth,
   pt                |-> a.pt,
   eta               |-> a.eta,
   phi               |-> a.phi]

\* the dynamic columns as the tables bind them to stored columns
FDParticles_theta(r) == Theta(r.eta)
FDParticles_px(r)    == Px(r.pt, r.phi)
FDParticles_py(r)    == Py(r.pt, r.phi)
FDParticles_pz(r)    == Pz(r.pt, r.eta)
FDParticles_p(r)     == P(r.pt, r.eta)
FDExtParticles_tpcCrossedRowsOverFindableCls(r) ==
  TPCCrossedRowsOverFindableCls(r.tpcNClsFindable, r.tpcNClsCrossedRows)

---------------------------------------------------------------------------
(***************************************************************************)
(* The arguments the producer passes to the table cursors.                 *)
(***************************************************************************)
kTrack       == EnumValue(ParticleType, "kTrack")
kV0          == EnumValue(ParticleType, "kV0")
kCharmHadron == EnumValue(ParticleType, "kCharmHadron")
kPrimary     == EnumValue(ParticleOriginMCTruth, "kPrimary")
kElse        == EnumValue(ParticleOriginMCTruth, "kElse")

\* (pt, eta, phi): ordinary values, and pseudorapidities beyond the range of
\* the float exponential
KinSamples ==
  {<<One, Zero, Zero>>, <<Two, One, HalfPi>>, <<Two, One, One>>,
   <<One, FNeg(One), One>>, <<Two, FNeg(One), HalfPi>>, <<Zero, Zero, Zero>>}
    \cup ({Zero, One} \X {Fin(-105 * Scale), Fin(105 * Scale)} \X {Zero})

PartTypeSamples == {kCharmHadron, kNParticleTypes, 256 + kCharmHadron}

ChildrenSamples == {<<0>>, <<1>>, <<0, 1>>}

OriginSamples == {kPrimary, kElse, kNOriginMCTruthTypes, 256 + kElse}

\* (tpcNClsFindable, tpcNClsCrossedRows)
CountSamples ==
  {<<0, 0>>, <<0, 255>>, <<1, 1>>, <<255, 255>>, <<1, 255>>, <<255, 1>>,
   <<256 + 2, 1>>}

ParticleArg(pt, eta, phi, partType, childrenIds) ==
  [fdCollisionId |-> 0, pt |-> pt, eta |-> eta, phi |-> phi,
   partType |-> partType, cut |-> 1, pidcut |-> 1, tempFitVar |-> Zero,
   childrenIds |-> childrenIds, mLambda |-> Zero, mAntiLambda |-> Zero]

ParticleArgs ==
  {ParticleArg(k[1], k[2], k[3], kTrack, <<>>) : k \in KinSamples}
    \cup {ParticleArg(One, Zero, Zero, t, <<>>) : t \in PartTypeSamples}
    \cup {ParticleArg(One, Zero, Zero, kV0, c) : c \in ChildrenSamples}

ExtParticleArgs ==
  {[sign |-> 1, tpcNClsFound |-> 1, tpcNClsFindable |-> n[1],
    tpcNClsCrossedRows |-> n[2], tpcNClsShared |-> 0, itsNCls |-> 1,
    itsNClsInnerBarrel |-> 1] : n \in CountSamples}

MCParticleArgs ==
  {[partOriginMCTruth |-> o, pdgMCTruth |-> 2212, pt |-> One, eta |-> Zero,
    phi |-> Zero] : o \in OriginSamples}

---------------------------------------------------------------------------
(***************************************************************************)
(* State and actions.  The producer fills the tables; once a consumer has  *)
(* read from them they are immutable.                                      *)
(***************************************************************************)
Rows(decl) == store[decl]

FDParticles    == Rows(TableDecl.FDParticles)
FDExtParticles == Rows(TableDecl.FDExtParticles)
FDMCParticles  == Rows(TableDecl.FDMCParticles)

\* the row of a table at a 0-based index (o2::soa::Index<>)
RowAt(table, i) == table[i + 1]

Indices(table) == 0..(Len(table) - 1)

RowCount == Len(FDParticles) + Len(FDExtParticles) + Len(FDMCParticles)

NoRead == [table |-> "", column |-> "", row |-> 0, value |-> NaN]

Init ==
  /\ store = [t \in Tags |-> <<>>]
  /\ read = NoRead

\* the producer may still append a row
Filling == read = NoRead /\ RowCount < MaxRows

\* the producer fills one row of FDParticles
InsertParticle(a) ==
  /\ Filling
  /\ store' = [store EXCEPT ![TableDecl.FDParticles] =
                 Append(@, FDParticlesRow(Len(@), a))]
  /\ UNCHANGED read

\* the producer fills one row of FDExtParticles
InsertExtParticle(a) ==
  /\ Filling
  /\ store' = [store EXCEPT ![TableDecl.FDExtParticles] =
                 Append(@, FDExtParticlesRow(a))]
  /\ UNCHANGED read

\* the producer fills one row of FDMCParticles
InsertMCParticle(a) ==
  /\ Filling
  /\ store' = [store EXCEPT ![TableDecl.FDMCParticles] =
                 Append(@, FDMCParticlesRow(a))]
  /\ UNCHANGED read

Reading(table, column, i, value) ==
  /\ read' = [table |-> table, column |-> column, row |-> i, value |-> value]
  /\ UNCHANGED store

\* a consumer reads a dynamic column of row i
ReadTheta(i) ==
  /\ i \in Indices(FDParticles)
  /\ Reading("FDParticles", "theta", i, FDParticles_theta(RowAt(FDParticles, i)))

ReadPx(i) ==
  /\ i \in Indices(FDParticles)
  /\ Reading("FDParticles", "px", i, FDParticles_px(RowAt(FDParticles, i)))

ReadPy(i) ==
  /\ i \in Indices(FDParticles)
  /\ Reading("FDParticles", "py", i, FDParticles_py(RowAt(FDParticles, i)))

ReadPz(i) ==
  /\ i \in Indices(FDParticles)
  /\ Reading("FDParticles", "pz", i, FDParticles_pz(RowAt(FDParticles, i)))

ReadP(i) ==
  /\ i \in Indices(FDParticles)
  /\ Reading("FDParticles", "p", i, FDParticles_p(RowAt(FDParticles, i)))

ReadTPCCrossedRowsOverFindableCls(i) ==
  /\ i \in Indices(FDExtParticles)
  /\ Reading("FDExtParticles", "tpcCrossedRowsOverFindableCls", i,
             FDExtParticles_tpcCrossedRowsOverFindableCls(RowAt(FDExtParticles, i)))

Next ==
  \/ \E a \in ParticleArgs : InsertParticle(a)
  \/ \E a \in ExtParticleArgs : InsertExtParticle(a)
  \/ \E a \in MCParticleArgs : InsertMCParticle(a)
  \/ \E i \in 0..(MaxRows - 1) : ReadTheta(i)
  \/ \E i \in 0..(MaxRows - 1) : ReadPx(i)
  \/ \E i \in 0..(MaxRows - 1) : ReadPy(i)
  \/ \E i \in 0..(MaxRows - 1) : ReadPz(i)
  \/ \E i \in 0..(MaxRows - 1) : ReadP(i)
  \/ \E i \in 0..(MaxRows - 1) : ReadTPCCrossedRowsOverFindableCls(i)

Spec == Init /\ [][Next]_vars

---------------------------------------------------------------------------
(***************************************************************************)
(* Properties.                                                             *)
(***************************************************************************)
Elems(seq) == {seq[j] : j \in 1..Len(seq)}

ReadIs(table, column) == read.table = table /\ read.column = column

\* the row the last read was made on
ReadParticle == RowAt(FDParticles, read.row)
ReadExtParticle == RowAt(FDExtParticles, read.row)

\* C1 as stated: every stored particle-type tag is one of the six declared
\* ParticleType kinds and every stored origin code is one of the nine
\* declared ParticleOriginMCTruth kinds.
C1_StoredTagsAreDeclaredKinds ==
  /\ \A i \in Indices(FDParticles) :
       RowAt(FDParticles, i).partType < kNParticleTypes
  /\ \A i \in Indices(FDMCParticles) :
       RowAt(FDMCParticles, i).partOriginMCTruth < kNOriginMCTruthTypes

\* C1 as amended: every stored particle-type tag and every stored origin
\* code is an 8-bit unsigned value (0..255); the columns are plain uint8_t
\* and hold values that are no declared kind.
C1_StoredTagsAreUint8 ==
  /\ \A i \in Indices(FDParticles) :
       RowAt(FDParticles, i).partType \in 0..255
  /\ \A i \in Indices(FDMCParticles) :
       RowAt(FDMCParticles, i).partOriginMCTruth \in 0..255

\* a particle row and a truth row whose tags are no declared kind
C1_Witness ==
  /\ \E i \in Indices(FDParticles) :
       RowAt(FDParticles, i).partType >= kNParticleTypes
  /\ \E i \in Indices(FDMCParticles) :
       RowAt(FDMCParticles, i).partOriginMCTruth >= kNOriginMCTruthTypes

\* C2 as stated: the child-index list of row i of FDParticles never
\* contains i.
C2_NoSelfReference ==
  \A i \in Indices(FDParticles) :
    i \notin Elems(RowAt(FDParticles, i).childrenIds)

\* C2 as amended: a row's child-index list is stored exactly as the
\* producer supplied it, its own index included; nothing is verified when
\* the row is constructed.
C2_ChildrenStoredAsSupplied ==
  [][\A a \in ParticleArgs :
       InsertParticle(a) =>
         RowAt(FDParticles', Len(FDParticles)).childrenIds = a.childrenIds]_vars

\* a stored row whose child list contains its own index
C2_Witness ==
  \E i \in Indices(FDParticles) :
    i \in Elems(RowAt(FDParticles, i).childrenIds)

\* C3 as stated: whenever crossed rows equals findable clusters the ratio
\* read is exactly 1.0.
C3_EqualCountsGiveOne ==
  (/\ ReadIs("FDExtParticles", "tpcCrossedRowsOverFindableCls")
   /\ ReadExtParticle.tpcNClsCrossedRows = ReadExtParticle.tpcNClsFindable)
    => read.value = One

\* C3 as amended: for a nonzero findable-cluster count the ratio read is
\* crossedRows / findableClusters rounded to the nearest representable value
\* (crossed rows in the numerator), and it is exactly 1.0 when the two
\* counts are equal and nonzero.
C3_RatioOfNonzeroCounts ==
  (/\ ReadIs("FDExtParticles", "tpcCrossedRowsOverFindableCls")
   /\ ReadExtParticle.tpcNClsFindable # 0)
    => LET c == ReadExtParticle.tpcNClsCrossedRows
           f == ReadExtParticle.tpcNClsFindable
       IN  /\ IsFin(read.value)
           /\ 2 * Abs(read.value.v * f - c * Scale) <= f
           /\ (c = f => read.value = One)

\* the ratio read on a row with equal nonzero counts
C3_Witness ==
  /\ ReadIs("FDExtParticles", "tpcCrossedRowsOverFindableCls")
  /\ ReadExtParticle.tpcNClsFindable = 255
  /\ ReadExtParticle.tpcNClsCrossedRows = 255
  /\ read.value = One

\* C4 as stated: with a findable-cluster count of 0 the ratio is one chosen
\* value, +inf or NaN, whatever the crossed-rows count.
C4_OneValueForZeroFindable ==
  \E v \in {PosInf, NaN} :
    \A i \in Indices(FDExtParticles) :
      RowAt(FDExtParticles, i).tpcNClsFindable = 0
        => FDExtParticles_tpcCrossedRowsOverFindableCls(RowAt(FDExtParticles, i)) = v

\* C4 as amended: with a findable-cluster count of 0 the ratio read is +inf
\* when the crossed-rows count is positive and NaN when it is 0 (plain
\* IEEE-754 division, no clamping), and a read changes no table.
C4_ZeroFindableGivesInfOrNaN ==
  /\ []((/\ ReadIs("FDExtParticles", "tpcCrossedRowsOverFindableCls")
         /\ ReadExtParticle.tpcNClsFindable = 0)
          => read.value = IF ReadExtParticle.tpcNClsCrossedRows = 0
                          THEN NaN ELSE PosInf)
  /\ [][read' # read => store' = store]_vars

\* the ratio read on a row with no findable cluster and crossed rows
C4_Witness ==
  /\ ReadIs("FDExtParticles", "tpcCrossedRowsOverFindableCls")
  /\ ReadExtParticle.tpcNClsFindable = 0
  /\ ReadExtParticle.tpcNClsCrossedRows > 0
  /\ read.value = PosInf

\* C5: every declared table has the origin tag "AOD" and no two declared
\* tables share a description tag, so that the tag pairs file one table
\* each.
C5_TagsIdentifyTables ==
  /\ \A t \in TableNames : TableDecl[t].origin = AOD
  /\ \A t1, t2 \in TableNames :
       t1 # t2 => TableDecl[t1].description # TableDecl[t2].description
  /\ DOMAIN store = Tags
  /\ Cardinality(Tags) = Cardinality(TableNames)

\* rows of the particle table and of the truth table, filed under their own
\* tag pairs
C5_Witness ==
  /\ Len(store[TableDecl.FDParticles]) = 1
  /\ Len(store[TableDecl.FDMCParticles]) = 1
  /\ "childrenIds" \in DOMAIN store[TableDecl.FDParticles][1]
  /\ "pdgMCTruth" \in DOMAIN store[TableDecl.FDMCParticles][1]

\* C6 as stated: both tags of every declared table are four to eight
\* characters long.
C6_TagsFourToEight ==
  \A tag \in DOMAIN store :
    /\ Len(tag.origin) \in 4..8
    /\ Len(tag.description) \in 4..8

\* C6 as amended: the origin tag of every declared table is three
\* characters long ("AOD") and its description tag is four to fifteen
\* characters long.
C6_TagLengths ==
  /\ DOMAIN store = Tags
  /\ \A tag \in DOMAIN store :
       /\ Len(tag.origin) = 3
       /\ Len(tag.description) \in 4..15

\* a row filed under a description of thirteen characters and an origin of
\* three, beside tables of four and of fifteen characters
C6_Witness ==
  /\ \E tag \in DOMAIN store :
       /\ Len(store[tag]) > 0
       /\ Len(tag.description) = 13
       /\ Len(tag.origin) = 3
  /\ \E tag \in DOMAIN store : Len(tag.description) = 4
  /\ \E tag \in DOMAIN store : Len(tag.description) = 15

\* the name table name[n] = {init} has an entry written out for kind k, and
\* that entry is the name of no other kind
NamedApart(name, init, k) ==
  /\ k \in DOMAIN name
  /\ k < Len(init)
  /\ \A j \in DOMAIN name : j # k => name[j] # name[k]

\* the name table has one entry per kind, each written out
OneNamePerKind(name, init, n) ==
  /\ DOMAIN name = 0..(n - 1)
  /\ Len(init) = n

\* C7: each name table is parallel to its enumeration: for every declared
\* kind a stored particle-type tag or origin code takes, the name table has
\* an entry written out for that kind which no other kind shares, and the
\* tables of TrackType and MCType have one entry per kind.
C7_NameTablesParallel ==
  /\ \A i \in Indices(FDParticles) :
       LET k == RowAt(FDParticles, i).partType
       IN  k < kNParticleTypes
             => NamedApart(ParticleTypeName, ParticleTypeNameInit, k)
  /\ \A i \in Indices(FDMCParticles) :
       LET k == RowAt(FDMCParticles, i).partOriginMCTruth
       IN  k < kNOriginMCTruthTypes
             => NamedApart(ParticleOriginMCTruthName,
                           ParticleOriginMCTruthNameInit, k)
  /\ OneNamePerKind(TrackTypeName, TrackTypeNameInit, kNTrackTypes)
  /\ \A k \in DOMAIN TrackTypeName :
       NamedApart(TrackTypeName, TrackTypeNameInit, k)
  /\ OneNamePerKind(MCTypeName, MCTypeNameInit, kNMCTypes)

IsKin(r, pt, eta, phi) == r.pt = pt /\ r.eta = eta /\ r.phi = phi

\* C8: on a row storing pt = 1, eta = 0, phi = 0 the dynamic columns read
\* px = 0, py = 1, pz = 0, p = 1 and theta = pi/2; and, the columns being
\* pt*sin(phi), pt*cos(phi), pt*sinh(eta), pt*cosh(eta) of the stored
\* columns they are bound to, on a row storing pt = 2, eta = 1, phi = pi/2
\* they read px = 2, py = 0, pz = 2.3504 and p = 3.0862.
C8_DerivedColumnsAtSamplePoints ==
  read.table = "FDParticles" =>
    /\ IsKin(ReadParticle, One, Zero, Zero) =>
         /\ read.column = "px" => read.value = Zero
         /\ read.column = "py" => read.value = One
         /\ read.column = "pz" => read.value = Zero
         /\ read.column = "p" => read.value = One
         /\ read.column = "theta" => read.value = HalfPi
    /\ IsKin(ReadParticle, Two, One, HalfPi) =>
         /\ read.column = "px" => read.value = Two
         /\ read.column = "py" => read.value = Zero
         /\ read.column = "pz" => read.value = Fin(23504)
         /\ read.column = "p" => read.value = Fin(30862)

\* py read as 1 on a row storing pt = 1, eta = 0, phi = 0
C8_Witness ==
  /\ ReadIs("FDParticles", "py")
  /\ IsKin(ReadParticle, One, Zero, Zero)
  /\ read.value = One

FSq(a) == FMul(a, a)

\* px^2 + py^2 + pz^2 and p^2 of a row
SumOfSquares(r) ==
  FAdd(FAdd(FSq(FDParticles_px(r)), FSq(FDParticles_py(r))),
       FSq(FDParticles_pz(r)))

SquareOfP(r) == FSq(FDParticles_p(r))

\* the tolerance of the comparison: a thousandth
Tolerance == Scale \div 1000

\* equal within the tolerance; an infinity equals itself, NaN equals nothing
WithinTolerance(a, b) ==
  \/ IsFin(a) /\ IsFin(b) /\ Abs(a.v - b.v) <= Tolerance
  \/ IsInf(a) /\ IsInf(b) /\ a.v = b.v

\* C9 as stated: for every stored (pt, eta, phi) the dynamic columns
\* satisfy px^2 + py^2 + pz^2 = p^2 within tolerance.
C9_MomentumIdentity ==
  \A i \in Indices(FDParticles) :
    WithinTolerance(SumOfSquares(RowAt(FDParticles, i)),
                    SquareOfP(RowAt(FDParticles, i)))

\* C9 as amended: for every stored triple of finite values, px^2 + py^2 +
\* pz^2 = p^2 within tolerance with both sides finite as long as sinh(eta)
\* and cosh(eta) do not overflow single precision; once they overflow, both
\* sides are +inf when pt # 0, and pz and p are NaN (0 * inf) when pt = 0,
\* where the two sides are not comparable.
C9_MomentumIdentityUnlessNaN ==
  \A i \in Indices(FDParticles) :
    LET r == RowAt(FDParticles, i)
    IN  IF ~SinhOverflows(r.eta)
        THEN /\ IsFin(SumOfSquares(r))
             /\ IsFin(SquareOfP(r))
             /\ WithinTolerance(SumOfSquares(r), SquareOfP(r))
        ELSE IF r.pt # Zero
        THEN SumOfSquares(r) = PosInf /\ SquareOfP(r) = PosInf
        ELSE IsNaN(FDParticles_pz(r)) /\ IsNaN(FDParticles_p(r))

\* rows on which the identity is met with finite values away from the axes,
\* and p read on one of them
C9_Witness ==
  /\ ReadIs("FDParticles", "p")
  /\ IsKin(ReadParticle, Two, One, One)
  /\ read.value = Fin(30862)
  /\ IsFin(SumOfSquares(ReadParticle))
  /\ SumOfSquares(ReadParticle).v > 9 * Scale

\* C10 as stated: for every finite stored eta the polar angle read lies
\* strictly between 0 and pi, and is pi/2 for eta = 0.
C10_ThetaStrictlyInside ==
  (ReadIs("FDParticles", "theta") /\ IsFin(ReadParticle.eta)) =>
    /\ IsFin(read.value)
    /\ 0 < read.value.v
    /\ read.value.v < Pi.v
    /\ ReadParticle.eta = Zero => read.value = HalfPi

\* C10 as amended: for every finite stored eta the polar angle read lies in
\* the closed range from 0 to the single-precision pi, and is pi/2 for
\* eta = 0; it is exactly 0 once exp(-eta) underflows (eta of about 104 and
\* more) and exactly the single-precision pi once exp(-eta) overflows.
C10_ThetaInClosedRange ==
  (ReadIs("FDParticles", "theta") /\ IsFin(ReadParticle.eta)) =>
    /\ IsFin(read.value)
    /\ 0 <= read.value.v
    /\ read.value.v <= Pi.v
    /\ ReadParticle.eta = Zero => read.value = HalfPi
    /\ ExpUnderflows(FNeg(ReadParticle.eta)) => read.value = Zero
    /\ ExpOverflows(FNeg(ReadParticle.eta)) => read.value = Pi

\* the polar angle read as 0 on a row storing eta = 105
C10_Witness ==
  /\ ReadIs("FDParticles", "theta")
  /\ ReadParticle.eta = Fin(105 * Scale)
  /\ read.value = Zero

\* C11: for every declared particle type a stored PartType holds, the
\* template-fit-variable name table TempFitVarName has an entry at that
\* index, so that the lookup of the histogram name by particle type is in
\* bounds.
C11_TempFitVarNameCoversParticleTypes ==
  \A i \in Indices(FDParticles) :
    LET k == RowAt(FDParticles, i).partType
    IN  k < kNParticleTypes => k \in DOMAIN TempFitVarName

=============================================================================
